---- MODULE Spec2Model ----
(***************************************************************************)
(* axfr2route53: AXFR2Route53.update_records as a state machine.           *)
(*                                                                         *)
(* One run of update_records is a linear pipeline: read the zone, check    *)
(* the hosted zone, check for an empty zone, resolve the record type,      *)
(* walk z.nodes building adict, build dns_changes, submit them to Route 53 *)
(* in batches.  The zone returned by dnszone.from_file and the outcome of  *)
(* each external call (from_file, change_resource_record_sets) are the     *)
(* inputs.  The hosted zone's record sets outlive a run, so that running   *)
(* the script again on the same input can be observed.                     *)
(***************************************************************************)
EXTENDS Integers, Sequences, FiniteSets, TLC

(***************************************************************************)
(* Bounds of the model.                                                    *)
(***************************************************************************)
\* host names h1..hMaxHosts may own a node of a small zone, besides the apex
MaxHosts == 2
\* a small zone has at most this many nodes
MaxNodes == 2
\* the largest zone has 2 * MAX_BATCH_SIZE + TailSize nodes
TailSize == 54

(***************************************************************************)
(* Program constants.                                                      *)
(***************************************************************************)
\* the slice width and range step of the batching, and the batching threshold
MAX_BATCH_SIZE == 98

None == "None"
ClassIN == "IN"
domain == "example.com"

\* the record types of the if/elif chain, in its order
SupportedTypes == <<"A", "AAAA", "CNAME", "MX", "NS", "PTR", "SPF", "TXT", "SRV">>

\* the -t tokens tried: every supported one, an unsupported type, a lower-case one
RecordTypeTokens == {SupportedTypes[i] : i \in 1..Len(SupportedTypes)} \cup {"SOA", "a"}

HostedZoneIds == {None, "Z1234567891011"}

(***************************************************************************)
(* Conversions.                                                            *)
(***************************************************************************)
RECURSIVE JoinLabels(_)
JoinLabels(labels) ==
    IF Len(labels) = 1 THEN labels[1]
    ELSE labels[1] \o "." \o JoinLabels(Tail(labels))

\* str(name) of a name relative to the zone's origin: the origin itself is "@"
StrName(name) == IF name = <<>> THEN "@" ELSE JoinLabels(name)

\* str(rds): the text form of an rdata
StrRdata(rds) == rds.text

\* str(n) of a non-negative int, as its decimal digits
RECURSIVE StrInt(_)
StrInt(n) == IF n < 10 THEN <<n>> ELSE StrInt(n \div 10) \o <<n % 10>>

\* int(s) of a string of decimal digits
RECURSIVE IntStr(_)
IntStr(s) ==
    IF Len(s) = 0 THEN 0
    ELSE 10 * IntStr(SubSeq(s, 1, Len(s) - 1)) + s[Len(s)]

\* template.format(args): the k-th "{}" of the template becomes args[k];
\* arguments the template has no placeholder for are dropped
RECURSIVE Format(_, _)
Format(template, args) ==
    IF template = <<>> THEN <<>>
    ELSE IF Head(template) = "{}"
         THEN <<Head(args)>> \o Format(Tail(template), Tail(args))
         ELSE <<Head(template)>> \o Format(Tail(template), args)

(***************************************************************************)
(* Zones: what dnszone.from_file returns.  z.nodes is a dict, so the names *)
(* of a zone are distinct and iterate in insertion order; a node holds at  *)
(* most one rdataset per (class, type), and an rdataset has a single ttl.  *)
(***************************************************************************)
Rdata(text) == [text |-> text]

RdsA1 == [rdclass |-> ClassIN, rdtype |-> "A", ttl |-> 300,
          items |-> <<Rdata("10.0.0.1")>>]
RdsA2 == [rdclass |-> ClassIN, rdtype |-> "A", ttl |-> 60,
          items |-> <<Rdata("10.0.0.3"), Rdata("10.0.0.2")>>]
RdsNS == [rdclass |-> ClassIN, rdtype |-> "NS", ttl |-> 3600,
          items |-> <<Rdata("ns1.example.net.")>>]

NodeContents ==
    {<<>>, <<RdsA1>>, <<RdsA2>>, <<RdsNS>>, <<RdsNS, RdsA1>>, <<RdsA2, RdsNS>>}

HostName(i) == <<"h" \o ToString(i)>>

SmallNames == {<<>>} \cup {HostName(i) : i \in 1..MaxHosts}

SmallZones ==
    {zn \in UNION {[1..n -> [name : SmallNames, rdatasets : NodeContents]] : n \in 0..MaxNodes} :
        \A i, j \in 1..Len(zn) : i # j => zn[i].name # zn[j].name}

\* a zone of n hosts, one address each; the ttl alternates
LargeZone(n) ==
    [i \in 1..n |->
        [name |-> HostName(i),
         rdatasets |-> <<[rdclass |-> ClassIN, rdtype |-> "A",
                          ttl |-> IF i % 2 = 0 THEN 300 ELSE 60,
                          items |-> <<Rdata("10.1.0." \o ToString(i))>>]>>]]

LargeSizes ==
    {MAX_BATCH_SIZE, MAX_BATCH_SIZE + 1, 2 * MAX_BATCH_SIZE, 2 * MAX_BATCH_SIZE + TailSize}

LargeZones == {LargeZone(n) : n \in LargeSizes}

NoZone == [loaded |-> FALSE, nodes |-> <<>>]

(***************************************************************************)
(* The hosted zone at Route 53 before the first run: it holds Route 53's   *)
(* own NS record set at the apex, and an address of h1 that is out of      *)
(* date.                                                                   *)
(***************************************************************************)
InitProvider ==
    (<<domain \o ".", "NS">> :>
        [TTL |-> 172800, ResourceRecords |-> <<[Value |-> "ns-1.awsdns-01.org."]>>])
    @@ (<<"h1." \o domain \o ".", "A">> :>
        [TTL |-> 86400, ResourceRecords |-> <<[Value |-> "192.0.2.1"]>>])

VARIABLES
    options,      \* self.options: recordtype, hostedzone
    zonefile,     \* the zone the file named by -f holds
    pc,           \* position in update_records
    zoneRead,     \* dnszone.from_file has been called in this run
    z,            \* the zone object
    rdtypevar, rdclassvar,
    adict,        \* dict recordname -> {'records', 'ttl'}, as its items() in order
    dns_changes,
    built,        \* the loop building dns_changes has run in this run
    chunks, ci,   \* the batches and the position of the loop over them
    calls,        \* the change_resource_record_sets calls of this run, in order
    exitmsg,      \* the message of the SystemExit raised, in pieces
    provider,     \* the record sets of the hosted zone at Route 53
    prevChanges,  \* <<dns_changes>> of the latest earlier run that built them
    doneProvider, \* <<provider>> as the first earlier run that completed left it
    aborted       \* an earlier run was ended by a call to Route 53 that raised

vars == <<options, zonefile, pc, zoneRead, z, rdtypevar, rdclassvar, adict,
          dns_changes, built, chunks, ci, calls, exitmsg, provider, prevChanges,
          doneProvider, aborted>>

locals == <<z, rdtypevar, rdclassvar, adict, dns_changes, built, chunks, ci>>
history == <<prevChanges, doneProvider, aborted>>

Terminal == {"done", "exit", "raised"}

Init ==
    /\ options \in [recordtype : RecordTypeTokens, hostedzone : HostedZoneIds]
    /\ \/ zonefile \in SmallZones
       \/ zonefile \in LargeZones
    /\ pc = "read"
    /\ zoneRead = FALSE
    /\ z = NoZone
    /\ rdtypevar = None
    /\ rdclassvar = None
    /\ adict = <<>>
    /\ dns_changes = <<>>
    /\ built = FALSE
    /\ chunks = <<>>
    /\ ci = 1
    /\ calls = <<>>
    /\ exitmsg = <<>>
    /\ provider = InitProvider
    /\ prevChanges = <<>>
    /\ doneProvider = <<>>
    /\ aborted = FALSE

(***************************************************************************)
(* Lines 62-71: import the zone from the file.  from_file returns the      *)
(* zone, raises AttributeError (reported as a missing domain), or raises   *)
(* something else, which nothing catches.                                  *)
(***************************************************************************)
FromFileOutcomes == {"zone", "AttributeError", "DNSException"}

ReadZone ==
    /\ pc = "read"
    /\ \E outcome \in FromFileOutcomes :
        /\ zoneRead' = TRUE
        /\ CASE outcome = "zone" ->
                  /\ z' = [loaded |-> TRUE, nodes |-> zonefile]
                  /\ pc' = "hostedzone"
                  /\ exitmsg' = exitmsg
             [] outcome = "AttributeError" ->
                  /\ z' = z
                  /\ pc' = "exit"
                  /\ exitmsg' = <<"No domain defined. Use -d to define the domain to transfer.">>
             [] OTHER ->
                  /\ z' = z
                  /\ pc' = "raised"
                  /\ exitmsg' = exitmsg
    /\ UNCHANGED <<options, zonefile, rdtypevar, rdclassvar, adict, dns_changes,
                   built, chunks, ci, calls, provider, history>>

(***************************************************************************)
(* Lines 73-74.                                                            *)
(***************************************************************************)
CheckHostedZone ==
    /\ pc = "hostedzone"
    /\ IF options.hostedzone = None
       THEN /\ pc' = "exit"
            /\ exitmsg' = <<"No Hosted Zone ID provided. Try again with -z.">>
       ELSE /\ pc' = "empty"
            /\ exitmsg' = exitmsg
    /\ UNCHANGED <<options, zonefile, zoneRead, locals, calls, provider, history>>

(***************************************************************************)
(* Lines 76-84: dns_changes = [], adict = {}, and the empty-zone exit.     *)
(***************************************************************************)
\* the empty-zone exit left out
EmptyZoneNever(zone) == FALSE

\* line 81
EmptyZone(zone) == Len(zone.nodes) = 0

CheckEmpty ==
    /\ pc = "empty"
    /\ dns_changes' = <<>>
    /\ adict' = <<>>
    /\ IF EmptyZone(z)
       THEN /\ pc' = "exit"
            /\ exitmsg' = <<"No records found to process.\n">>
       ELSE /\ pc' = "type"
            /\ exitmsg' = exitmsg
    /\ UNCHANGED <<options, zonefile, zoneRead, z, rdtypevar, rdclassvar, built,
                   chunks, ci, calls, provider, history>>

(***************************************************************************)
(* Lines 86-115: the if/elif chain over the record type.                   *)
(***************************************************************************)
\* the chain comparing without regard to case
IsSupportedAnyCase(token) ==
    \E i \in 1..Len(SupportedTypes) : SupportedTypes[i] = token \/ token = "a"

IsSupported(token) == \E i \in 1..Len(SupportedTypes) : SupportedTypes[i] = token

UnsupportedMessage(token) ==
    Format(<<"Unknown or unsupported record type in Route 53: ">>, <<token>>)

ResolveType ==
    /\ pc = "type"
    /\ IF IsSupported(options.recordtype)
       THEN /\ rdtypevar' = options.recordtype
            /\ rdclassvar' = ClassIN
            /\ pc' = "parse"
            /\ exitmsg' = exitmsg
       ELSE /\ pc' = "exit"
            /\ exitmsg' = UnsupportedMessage(options.recordtype)
            /\ UNCHANGED <<rdtypevar, rdclassvar>>
    /\ UNCHANGED <<options, zonefile, zoneRead, z, adict, dns_changes, built, chunks, ci,
                   calls, provider, history>>

(***************************************************************************)
(* Lines 118-148: the walk over z.nodes that builds adict.                 *)
(***************************************************************************)
\* node.get_rdataset(rdclass, rdtype): the node's rdataset of that class and
\* type, or no rdataset
GetRdataset(node, rdclass, rdtype) ==
    SelectSeq(node.rdatasets, LAMBDA r : r.rdclass = rdclass /\ r.rdtype = rdtype)

\* the apex NS records not skipped
SkipNothing(name, recordtype) == FALSE

\* line 127: the NS records of the apex are skipped
SkipRecord(name, recordtype) == StrName(name) = "@" /\ recordtype = "NS"

\* the apex named like any other node
RecordNameNoApex(name, dom) == StrName(name) \o "." \o dom \o "."

\* lines 131-132 and 141
RecordName(name, dom) ==
    IF StrName(name) = "@" THEN dom \o "." ELSE StrName(name) \o "." \o dom \o "."

\* recordname in adict
InDict(d, recordname) == \E i \in 1..Len(d) : d[i].name = recordname

KeyIndex(d, recordname) == CHOOSE i \in 1..Len(d) : d[i].name = recordname

\* one 'ttl' shared by all the entries: a later name's ttl overwrites it
AddRecordSharedTtl(d, recordname, ipaddr, ttl) ==
    IF \E i \in 1..Len(d) : d[i].name = recordname
    THEN [i \in 1..Len(d) |->
            IF d[i].name = recordname
            THEN [d[i] EXCEPT !.records = Append(@, ipaddr)]
            ELSE d[i]]
    ELSE Append([i \in 1..Len(d) |-> [d[i] EXCEPT !.ttl = StrInt(ttl)]],
                [name |-> recordname, records |-> <<ipaddr>>, ttl |-> StrInt(ttl)])

\* lines 133-139 and 142-148: append to the name's records, or create the
\* name's entry with the rdataset's ttl
AddRecord(d, recordname, ipaddr, ttl) ==
    IF InDict(d, recordname)
    THEN [d EXCEPT ![KeyIndex(d, recordname)].records = Append(@, ipaddr)]
    ELSE Append(d, [name |-> recordname, records |-> <<ipaddr>>, ttl |-> StrInt(ttl)])

\* lines 124-148: the rdatas of the node's rdataset from the i-th on
RECURSIVE AddRdataset(_, _, _, _, _)
AddRdataset(d, name, rdataset, recordtype, i) ==
    IF i > Len(rdataset.items) THEN d
    ELSE AddRdataset(IF SkipRecord(name, recordtype)
                     THEN d
                     ELSE AddRecord(d, RecordName(name, domain),
                                    StrRdata(rdataset.items[i]), rdataset.ttl),
                     name, rdataset, recordtype, i + 1)

\* lines 119-148: one node; a node without the rdataset is passed over
AddNode(d, node, rdclass, rdtype, recordtype) ==
    LET rdataset == GetRdataset(node, rdclass, rdtype)
    IN  IF rdataset = <<>> \/ Len(rdataset[1].items) = 0
        THEN d
        ELSE AddRdataset(d, node.name, rdataset[1], recordtype, 1)

\* line 118: the nodes lo..hi of z.nodes, in the dict's order.  They are
\* walked by halves, and the test on Len(first) has the first half evaluated
\* before the second is begun, which keeps the evaluation shallow.
RECURSIVE AddNodes(_, _, _, _, _, _, _)
AddNodes(d, nodes, lo, hi, rdclass, rdtype, recordtype) ==
    IF lo > hi THEN d
    ELSE IF lo = hi THEN AddNode(d, nodes[lo], rdclass, rdtype, recordtype)
    ELSE LET mid == (lo + hi) \div 2
             first == AddNodes(d, nodes, lo, mid, rdclass, rdtype, recordtype)
         IN  IF Len(first) >= 0
             THEN AddNodes(first, nodes, mid + 1, hi, rdclass, rdtype, recordtype)
             ELSE first

ParseRecords ==
    /\ pc = "parse"
    /\ adict' = AddNodes(adict, z.nodes, 1, Len(z.nodes), rdclassvar, rdtypevar,
                         options.recordtype)
    /\ pc' = "process"
    /\ UNCHANGED <<options, zonefile, zoneRead, z, rdtypevar, rdclassvar,
                   dns_changes, built, chunks, ci, calls, exitmsg, provider, history>>

(***************************************************************************)
(* Lines 150-162: one UPSERT per key of adict, in the dict's order.        *)
(***************************************************************************)
ResourceRecordList(records) == [i \in 1..Len(records) |-> [Value |-> records[i]]]

\* only the names Route 53 does not hold yet are put in the change list
BuildChangesNewOnly(d, recordtype) ==
    LET fresh == SelectSeq(d, LAMBDA e : <<e.name, recordtype>> \notin DOMAIN provider)
    IN  [i \in 1..Len(fresh) |->
            [Action |-> "UPSERT",
             ResourceRecordSet |->
                [Name |-> fresh[i].name,
                 Type |-> recordtype,
                 TTL |-> IntStr(fresh[i].ttl),
                 ResourceRecords |-> ResourceRecordList(fresh[i].records)]]]

BuildChanges(d, recordtype) ==
    [i \in 1..Len(d) |->
        [Action |-> "UPSERT",
         ResourceRecordSet |->
            [Name |-> d[i].name,
             Type |-> recordtype,
             TTL |-> IntStr(d[i].ttl),
             ResourceRecords |-> ResourceRecordList(d[i].records)]]]

ProcessChanges ==
    /\ pc = "process"
    /\ dns_changes' = BuildChanges(adict, options.recordtype)
    /\ built' = TRUE
    /\ pc' = "check"
    /\ UNCHANGED <<options, zonefile, zoneRead, z, rdtypevar, rdclassvar, adict,
                   chunks, ci, calls, exitmsg, provider, history>>

(***************************************************************************)
(* Lines 163-166.                                                          *)
(***************************************************************************)
\* the exit on an empty change list left out
NoChangesNever(changes) == FALSE

NoChanges(changes) == Len(changes) = 0

CheckChanges ==
    /\ pc = "check"
    /\ IF NoChanges(dns_changes)
       THEN /\ pc' = "exit"
            /\ exitmsg' = <<"No ", options.recordtype, " records found.">>
       ELSE /\ pc' = "connect"
            /\ exitmsg' = exitmsg
    /\ UNCHANGED <<options, zonefile, zoneRead, locals, calls, provider, history>>

(***************************************************************************)
(* Route 53: change_resource_record_sets applies a batch as a whole or     *)
(* rejects it as a whole; UPSERT creates the record set or replaces the    *)
(* one of that name and type.                                              *)
(***************************************************************************)
RecordSetKey(change) == <<change.ResourceRecordSet.Name, change.ResourceRecordSet.Type>>

RecordSetValue(change) ==
    [TTL |-> change.ResourceRecordSet.TTL,
     ResourceRecords |-> change.ResourceRecordSet.ResourceRecords]

\* the hosted zone p after the batch: each record set named in the batch is
\* as the last change of the batch naming it says, the others are untouched
ApplyChanges(p, changes) ==
    LET n == Len(changes)
        keys == {RecordSetKey(changes[i]) : i \in 1..n}
        last(k) == CHOOSE i \in 1..n :
                       /\ RecordSetKey(changes[i]) = k
                       /\ \A j \in (i + 1)..n : RecordSetKey(changes[j]) # k
    IN  [k \in DOMAIN p \cup keys |->
            IF k \in keys THEN RecordSetValue(changes[last(k)]) ELSE p[k]]

\* str(_hostedzone)
StrHostedZone(hz) == hz

ApiCall(changes, ok) ==
    [HostedZoneId |-> StrHostedZone(options.hostedzone), Changes |-> changes, ok |-> ok]

(***************************************************************************)
(* Lines 171-176: the choice between one call and batches, and the         *)
(* batches.                                                                *)
(***************************************************************************)
Min(a, b) == IF a < b THEN a ELSE b

\* range(start, stop, step), step > 0
RECURSIVE Range(_, _, _)
Range(start, stop, step) ==
    IF start >= stop THEN <<>> ELSE <<start>> \o Range(start + step, stop, step)

\* s[a:b], 0 <= a <= b
Slice(s, a, b) == SubSeq(s, a + 1, Min(b, Len(s)))

\* line 173
BatchingRequired(changes) == Len(changes) > MAX_BATCH_SIZE

\* slices one short of the step
MakeChunksShort(changes) ==
    LET starts == Range(0, Len(changes), MAX_BATCH_SIZE)
    IN  [k \in 1..Len(starts) |->
            Slice(changes, starts[k], starts[k] + MAX_BATCH_SIZE - 1)]

\* line 175
MakeChunks(changes) ==
    LET starts == Range(0, Len(changes), MAX_BATCH_SIZE)
    IN  [k \in 1..Len(starts) |-> Slice(changes, starts[k], starts[k] + MAX_BATCH_SIZE)]

Connect ==
    /\ pc = "connect"
    /\ IF BatchingRequired(dns_changes)
       THEN /\ chunks' = MakeChunks(dns_changes)
            /\ pc' = "chunks"
       ELSE /\ chunks' = chunks
            /\ pc' = "single"
    /\ ci' = 1
    /\ UNCHANGED <<options, zonefile, zoneRead, z, rdtypevar, rdclassvar, adict,
                   dns_changes, built, calls, exitmsg, provider, history>>

(***************************************************************************)
(* Lines 177-187: the calls.  A call that raises ends the run: nothing in  *)
(* update_records catches it.                                              *)
(***************************************************************************)
\* the exception of a failed call swallowed
AfterCallIgnoringFailure(ok, more) == IF more THEN "chunks" ELSE "done"

AfterCall(ok, more) ==
    IF ~ok THEN "raised" ELSE IF more THEN "chunks" ELSE "done"

\* lines 177-182: the next batch
SubmitChunk ==
    /\ pc = "chunks"
    /\ ci <= Len(chunks)
    /\ \E ok \in BOOLEAN :
        /\ calls' = Append(calls, ApiCall(chunks[ci], ok))
        /\ provider' = IF ok THEN ApplyChanges(provider, chunks[ci]) ELSE provider
        /\ pc' = AfterCall(ok, ci < Len(chunks))
    /\ ci' = ci + 1
    /\ UNCHANGED <<options, zonefile, zoneRead, z, rdtypevar, rdclassvar, adict,
                   dns_changes, built, chunks, exitmsg, history>>

\* lines 184-187: the whole list in one call
SubmitAll ==
    /\ pc = "single"
    /\ \E ok \in BOOLEAN :
        /\ calls' = Append(calls, ApiCall(dns_changes, ok))
        /\ provider' = IF ok THEN ApplyChanges(provider, dns_changes) ELSE provider
        /\ pc' = AfterCall(ok, FALSE)
    /\ UNCHANGED <<options, zonefile, zoneRead, locals, exitmsg, history>>

(***************************************************************************)
(* The script is run again with the same options on the same zone file.    *)
(***************************************************************************)
Rerun ==
    /\ pc \in Terminal
    /\ pc' = "read"
    /\ zoneRead' = FALSE
    /\ z' = NoZone
    /\ rdtypevar' = None
    /\ rdclassvar' = None
    /\ adict' = <<>>
    /\ dns_changes' = <<>>
    /\ built' = FALSE
    /\ chunks' = <<>>
    /\ ci' = 1
    /\ calls' = <<>>
    /\ exitmsg' = <<>>
    /\ prevChanges' = IF built THEN <<dns_changes>> ELSE prevChanges
    /\ doneProvider' = IF pc = "done" /\ doneProvider = <<>> THEN <<provider>> ELSE doneProvider
    /\ aborted' = (aborted \/ (pc = "raised" /\ Len(calls) > 0))
    /\ UNCHANGED <<options, zonefile, provider>>

Next ==
    \/ ReadZone
    \/ CheckHostedZone
    \/ CheckEmpty
    \/ ResolveType
    \/ ParseRecords
    \/ ProcessChanges
    \/ CheckChanges
    \/ Connect
    \/ SubmitChunk
    \/ SubmitAll
    \/ Rerun

Spec == Init /\ [][Next]_vars

(***************************************************************************)
(* What the properties below are stated in: the zone as read, the names    *)
(* and record sets expected of it, the errors by their text.               *)
(***************************************************************************)
AllowList == {"A", "AAAA", "CNAME", "MX", "NS", "PTR", "SPF", "TXT", "SRV"}

ApexName == "example.com."

\* the fully-qualified name of a node of the zone
CanonicalName(name) == IF name = <<>> THEN ApexName ELSE name[1] \o "." \o ApexName

HasRecords(node, type) ==
    \E i \in 1..Len(node.rdatasets) :
        /\ node.rdatasets[i].rdclass = "IN"
        /\ node.rdatasets[i].rdtype = type
        /\ Len(node.rdatasets[i].items) > 0

RecordsOf(node, type) ==
    LET i == CHOOSE j \in 1..Len(node.rdatasets) :
                 node.rdatasets[j].rdclass = "IN" /\ node.rdatasets[j].rdtype = type
    IN  node.rdatasets[i]

\* a node with records of the type that the apex-NS exclusion does not drop
Survives(node, type) == HasRecords(node, type) /\ ~(node.name = <<>> /\ type = "NS")

\* the surviving nodes, in the zone's order
SurvivingNodes(zone, type) == SelectSeq(zone, LAMBDA n : Survives(n, type))

UnsupportedText == "Unknown or unsupported record type in Route 53: "
NoRecordsMessage == <<"No records found to process.\n">>
NoHostedZoneMessage == <<"No Hosted Zone ID provided. Try again with -z.">>

UnsupportedError == pc = "exit" /\ Len(exitmsg) > 0 /\ exitmsg[1] = UnsupportedText

AfterGate == {"parse", "process", "check", "connect", "chunks", "single", "done"}

\* the change lists of the calls made so far, in call order
CallBatches == [i \in 1..Len(calls) |-> calls[i].Changes]

RECURSIVE Concat(_)
Concat(ss) == IF ss = <<>> THEN <<>> ELSE Head(ss) \o Concat(Tail(ss))

IsPartition(batches, changes) ==
    /\ Len(batches) = (Len(changes) + 97) \div 98
    /\ \A i \in 1..Len(batches) : Len(batches[i]) >= 1 /\ Len(batches[i]) <= 98
    /\ Concat(batches) = changes

\* the i-th batch of 98 of the change list
ExpectedBatch(i) ==
    SubSeq(dns_changes, 98 * (i - 1) + 1,
           IF 98 * i < Len(dns_changes) THEN 98 * i ELSE Len(dns_changes))

BatchSizes(batches) == [i \in 1..Len(batches) |-> Len(batches[i])]

(***************************************************************************)
(* C1                                                                      *)
(***************************************************************************)
\* C1: a non-empty change list of length N is submitted as ceil(N/98)
\* batches, each of 1..98 descriptors, whose concatenation in submission
\* order is the change list: so are the batches once they are cut, and so
\* are the calls of a run that has completed.
C1_BatchesPartitionChanges ==
    /\ pc = "chunks" => IsPartition(chunks, dns_changes)
    /\ pc = "done" => Len(dns_changes) > 0 /\ IsPartition(CallBatches, dns_changes)

C1_Witness250 ==
    /\ pc = "done"
    /\ Len(dns_changes) = 250
    /\ BatchSizes(CallBatches) = <<98, 98, 54>>

(***************************************************************************)
(* C2                                                                      *)
(***************************************************************************)
\* C2: when the requested type is NS, no entry of adict, no change
\* descriptor and no submitted change carries the apex name, and Route 53's
\* NS record set at the apex is never changed; the NS records of every
\* other name are in the change list.
C2_ApexNSExcluded ==
    options.recordtype = "NS" =>
        /\ \A i \in 1..Len(adict) : adict[i].name # ApexName
        /\ \A i \in 1..Len(dns_changes) : dns_changes[i].ResourceRecordSet.Name # ApexName
        /\ \A c \in 1..Len(calls) : \A i \in 1..Len(calls[c].Changes) :
               calls[c].Changes[i].ResourceRecordSet.Name # ApexName
        /\ provider[<<ApexName, "NS">>] = InitProvider[<<ApexName, "NS">>]
        /\ built =>
               \A k \in 1..Len(z.nodes) :
                   (z.nodes[k].name # <<>> /\ HasRecords(z.nodes[k], "NS")) =>
                       \E i \in 1..Len(dns_changes) :
                           /\ dns_changes[i].ResourceRecordSet.Name
                                  = CanonicalName(z.nodes[k].name)
                           /\ Len(dns_changes[i].ResourceRecordSet.ResourceRecords)
                                  = Len(RecordsOf(z.nodes[k], "NS").items)

C2_WitnessApexAndHostNS ==
    /\ options.recordtype = "NS"
    /\ pc = "done"
    /\ \E k \in 1..Len(z.nodes) : z.nodes[k].name = <<>> /\ HasRecords(z.nodes[k], "NS")
    /\ \E k \in 1..Len(z.nodes) : z.nodes[k].name # <<>> /\ HasRecords(z.nodes[k], "NS")
    /\ Len(calls) = 1 /\ Len(calls[1].Changes) = 1

(***************************************************************************)
(* C3                                                                      *)
(***************************************************************************)
\* C3 as stated: a run whose record-type token is outside the allow-list
\* never reads the zone, and when it ends it ends with the unsupported-type
\* error.
C3_GateBeforeZoneRead ==
    options.recordtype \notin AllowList =>
        /\ ~zoneRead
        /\ pc \in Terminal => UnsupportedError

\* C3 as the code has it: the gate runs after the zone has been read and
\* after the hosted-zone and empty-zone checks, and before any record is
\* looked at.  A run with a token outside the allow-list never reaches the
\* aggregation or Route 53; once the zone is loaded, a hosted zone given and
\* the zone not empty, it ends with the unsupported-type error; and whenever
\* it ends with that error the zone has been read.
C3_GateAfterReadBeforeRecords ==
    options.recordtype \notin AllowList =>
        /\ pc \notin AfterGate
        /\ rdtypevar = None /\ adict = <<>> /\ ~built /\ calls = <<>>
        /\ (pc = "exit" /\ z.loaded /\ options.hostedzone # None /\ Len(z.nodes) > 0)
               => UnsupportedError
        /\ UnsupportedError
               => zoneRead /\ z.loaded /\ options.hostedzone # None /\ Len(z.nodes) > 0

C3_WitnessUnsupportedAfterRead ==
    /\ options.recordtype = "a"
    /\ UnsupportedError
    /\ zoneRead
    /\ Len(z.nodes) = 2

(***************************************************************************)
(* C4                                                                      *)
(***************************************************************************)
\* C4: at every moment the calls made to Route 53 are, in order, the first
\* batches of the change list; every call but the latest has succeeded; and
\* once a call has failed the run is over, so that no batch follows it.
C4_SequentialAbortOnFailure ==
    /\ \A i \in 1..Len(calls) : calls[i].Changes = ExpectedBatch(i)
    /\ 98 * (Len(calls) - 1) < Len(dns_changes) \/ Len(calls) = 0
    /\ \A i \in 1..(Len(calls) - 1) : calls[i].ok
    /\ (Len(calls) > 0 /\ ~calls[Len(calls)].ok) => pc = "raised"
    /\ pc = "done" => \A i \in 1..Len(calls) : calls[i].ok

C4_WitnessSecondBatchRejected ==
    /\ pc = "raised"
    /\ Len(chunks) = 3
    /\ Len(calls) = 2
    /\ calls[1].ok /\ ~calls[2].ok

(***************************************************************************)
(* C5                                                                      *)
(***************************************************************************)
\* C5: no call to Route 53 ever carries an empty change list; and a run
\* that has filtered a zone with nodes down to no group at all (no node has
\* records of the type, apart from NS at the apex) makes no call and ends
\* with "No <type> records found.", the requested type in the message.
C5_NoMatchingRecords ==
    /\ \A i \in 1..Len(calls) : Len(calls[i].Changes) > 0
    /\ (built /\ Len(z.nodes) > 0 /\ SurvivingNodes(z.nodes, options.recordtype) = <<>>) =>
           /\ calls = <<>>
           /\ pc \in {"check", "exit"}
           /\ pc = "exit" => exitmsg = <<"No ", options.recordtype, " records found.">>

C5_WitnessOnlyApexNS ==
    /\ pc = "exit"
    /\ options.recordtype = "NS"
    /\ Len(z.nodes) = 1 /\ z.nodes[1].name = <<>> /\ HasRecords(z.nodes[1], "NS")
    /\ exitmsg = <<"No ", "NS", " records found.">>

(***************************************************************************)
(* C6                                                                      *)
(***************************************************************************)
\* C6: the unsupported-type error is raised for the tokens outside the
\* allow-list and only them, its message carries the offending token, and a
\* run past the gate has the token as its type and IN as its class.
C6_UnsupportedErrorCarriesToken ==
    /\ UnsupportedError =>
           /\ options.recordtype \notin AllowList
           /\ \E i \in 1..Len(exitmsg) : exitmsg[i] = options.recordtype
    /\ ( /\ pc \in Terminal
         /\ z.loaded /\ options.hostedzone # None /\ Len(z.nodes) > 0
         /\ options.recordtype \notin AllowList ) => UnsupportedError
    /\ pc \in AfterGate =>
           /\ options.recordtype \in AllowList
           /\ rdtypevar = options.recordtype
           /\ rdclassvar = "IN"

(***************************************************************************)
(* C7                                                                      *)
(***************************************************************************)
\* C7: a run builds the change list the run before it built; and a run
\* that completes leaves every record set of the change list as its
\* descriptor says and every other record set as it was before the first
\* run, which is the hosted zone as an earlier complete run left it,
\* whatever runs came before, completed or aborted.
C7_RerunIsSafe ==
    /\ (built /\ prevChanges # <<>>) => dns_changes = prevChanges[1]
    /\ pc = "done" =>
        LET keys == {<<dns_changes[i].ResourceRecordSet.Name,
                       dns_changes[i].ResourceRecordSet.Type>> : i \in 1..Len(dns_changes)}
        IN  /\ DOMAIN provider = DOMAIN InitProvider \cup keys
            /\ \A i \in 1..Len(dns_changes) :
                   LET rrset == dns_changes[i].ResourceRecordSet
                   IN  provider[<<rrset.Name, rrset.Type>>]
                           = [TTL |-> rrset.TTL, ResourceRecords |-> rrset.ResourceRecords]
            /\ \A k \in DOMAIN InitProvider \ keys : provider[k] = InitProvider[k]
            /\ doneProvider # <<>> => provider = doneProvider[1]

C7_WitnessAfterAbortedAndCompleteRuns ==
    /\ pc = "done"
    /\ aborted
    /\ doneProvider # <<>>
    /\ prevChanges # <<>>
    /\ Len(chunks) = 3

(***************************************************************************)
(* C8                                                                      *)
(***************************************************************************)
\* C8 as stated: a run that has loaded a zone without nodes ends with
\* "No records found to process." and nothing else.
C8_EmptyZoneAlwaysEmptyError ==
    (z.loaded /\ Len(z.nodes) = 0 /\ pc \in Terminal) =>
        pc = "exit" /\ exitmsg = NoRecordsMessage

\* C8 as the code has it: a run that has loaded a zone without nodes never
\* resolves the type, builds no group and no change list and makes no call
\* to Route 53; it ends with "No records found to process." when a hosted
\* zone id was given, and with the missing-hosted-zone error, which is
\* checked first, when none was.
C8_EmptyZoneAfterHostedZone ==
    (z.loaded /\ Len(z.nodes) = 0) =>
        /\ pc \in {"hostedzone", "empty", "exit"}
        /\ rdtypevar = None /\ adict = <<>> /\ dns_changes = <<>> /\ ~built
        /\ calls = <<>>
        /\ pc = "exit" =>
               exitmsg = IF options.hostedzone = None
                         THEN NoHostedZoneMessage
                         ELSE NoRecordsMessage

C8_WitnessEmptyZone ==
    /\ z.loaded
    /\ Len(z.nodes) = 0
    /\ pc = "exit"
    /\ exitmsg = NoRecordsMessage

(***************************************************************************)
(* C9                                                                      *)
(***************************************************************************)
\* C9: the change list has one UPSERT per surviving node of the zone, in
\* the zone's order: the k-th descriptor has the canonical name of the k-th
\* surviving node, the requested type, and that node's record values in
\* the rdataset's order, at least one; and no two descriptors share a name.
C9_OneUpsertPerName ==
    built =>
        LET nodes == SurvivingNodes(z.nodes, options.recordtype)
        IN  /\ Len(dns_changes) = Len(nodes)
            /\ \A k \in 1..Len(dns_changes) :
                   LET rrset == dns_changes[k].ResourceRecordSet
                       items == RecordsOf(nodes[k], options.recordtype).items
                   IN  /\ dns_changes[k].Action = "UPSERT"
                       /\ rrset.Name = CanonicalName(nodes[k].name)
                       /\ rrset.Type = options.recordtype
                       /\ Len(rrset.ResourceRecords) >= 1
                       /\ rrset.ResourceRecords
                              = [i \in 1..Len(items) |-> [Value |-> items[i].text]]
            /\ pc = "check" =>
                   \A i, j \in 1..Len(dns_changes) :
                       i # j => dns_changes[i].ResourceRecordSet.Name
                                    # dns_changes[j].ResourceRecordSet.Name

C9_WitnessHostBeforeApex ==
    /\ pc = "check"
    /\ options.recordtype = "A"
    /\ Len(z.nodes) = 2 /\ z.nodes[1].name # <<>> /\ z.nodes[2].name = <<>>
    /\ Len(dns_changes) = 2
    /\ dns_changes[1].ResourceRecordSet.Name = "h1.example.com."
    /\ dns_changes[1].ResourceRecordSet.ResourceRecords
           = <<[Value |-> "10.0.0.3"], [Value |-> "10.0.0.2"]>>
    /\ dns_changes[2].ResourceRecordSet.Name = "example.com."

====
